---------------------------- MODULE Spec2Model ----------------------------
(***************************************************************************)
(* Model of the header-injecting HTTP transport of the todoagent example   *)
(* (quickstart/todoagent/main.go, customTransport) and of the way          *)
(* net/http's Header.Set, which RoundTrip calls, treats header names.      *)
(*                                                                         *)
(* A header name is a sequence of one-character strings, so that the       *)
(* canonicalisation Header.Set performs is computed and not assumed.       *)
(* A header map (http.Header) is a record [isNil, m]: isNil tells a nil    *)
(* map from an empty one, m maps each stored key to its list of values.    *)
(***************************************************************************)
EXTENDS Naturals, Sequences, FiniteSets, TLC

\* ------------------------------------------------------------------------
\* Bounds and inputs
\* ------------------------------------------------------------------------

\* Number of RoundTrip calls one goroutine makes on its request (a resend of
\* the same request object is the second call).
MaxCalls == 2

\* The goroutines that call RoundTrip concurrently, each on its own request.
Goroutines == {"g1", "g2"}

ApiKeyName == <<"a", "p", "i", "-", "k", "e", "y">>
ContentTypeName == <<"C", "o", "n", "t", "e", "n", "t", "-", "T", "y", "p", "e">>
LowerContentTypeName == <<"c", "o", "n", "t", "e", "n", "t", "-", "t", "y", "p", "e">>
XTraceName == <<"X", "-", "T", "r", "a", "c", "e">>

\* The headers map of main, widened by a name that differs from
\* "Content-Type" in letter case only (a Go map keeps both keys).
FullHeaders ==
    (ApiKeyName :> "secret123") @@ (ContentTypeName :> "application/json")
        @@ (LowerContentTypeName :> "text/json")

\* The maps t.headers may hold: every restriction of FullHeaders.
HeaderSets == { [k \in S |-> FullHeaders[k]] : S \in SUBSET DOMAIN FullHeaders }

NilHeader == [isNil |-> TRUE, m |-> <<>>]
EmptyHeader == [isNil |-> FALSE, m |-> <<>>]

\* The header maps a request may arrive with.
RequestHeaders ==
    { NilHeader,
      EmptyHeader,
      [isNil |-> FALSE, m |-> (ContentTypeName :> <<"text/plain">>)],
      [isNil |-> FALSE, m |-> (LowerContentTypeName :> <<"text/plain">>)
                                  @@ (XTraceName :> <<"abc">>)],
      [isNil |-> FALSE, m |-> (ContentTypeName :> <<"text/plain", "text/html">>)
                                  @@ (XTraceName :> <<"abc">>)] }

\* What the wrapped sender may return: (response, error), "nil" for nil.
NoResult == [resp |-> "none", err |-> "none"]
NilHeaderResult == [resp |-> "nil", err |-> "http: nil Request.Header"]
SenderResults ==
    { [resp |-> "200 OK", err |-> "nil"],
      [resp |-> "nil", err |-> "dial timeout"],
      [resp |-> "302 Found", err |-> "redirect refused"] }

\* ------------------------------------------------------------------------
\* textproto.CanonicalMIMEHeaderKey, as used by http.Header.Set
\* ------------------------------------------------------------------------

LowerLetters ==
    <<"a", "b", "c", "d", "e", "f", "g", "h", "i", "j", "k", "l", "m",
      "n", "o", "p", "q", "r", "s", "t", "u", "v", "w", "x", "y", "z">>
UpperLetters ==
    <<"A", "B", "C", "D", "E", "F", "G", "H", "I", "J", "K", "L", "M",
      "N", "O", "P", "Q", "R", "S", "T", "U", "V", "W", "X", "Y", "Z">>
Digits == {"0", "1", "2", "3", "4", "5", "6", "7", "8", "9"}
\* (the backquote, the one token byte left out, occurs in no name used here)
TokenPunctuation ==
    {"!", "#", "$", "%", "&", "'", "*", "+", "-", ".", "^", "_", "|", "~"}

IsLower(c) == \E i \in 1..Len(LowerLetters) : LowerLetters[i] = c
IsUpper(c) == \E i \in 1..Len(UpperLetters) : UpperLetters[i] = c

ToUpper(c) ==
    IF IsLower(c)
    THEN UpperLetters[CHOOSE i \in 1..Len(LowerLetters) : LowerLetters[i] = c]
    ELSE c
ToLower(c) ==
    IF IsUpper(c)
    THEN LowerLetters[CHOOSE i \in 1..Len(UpperLetters) : UpperLetters[i] = c]
    ELSE c

validHeaderFieldByte(c) ==
    IsLower(c) \/ IsUpper(c) \/ c \in Digits \/ c \in TokenPunctuation

\* The rewriting loop: upper case at the start and after each dash, lower
\* case elsewhere.
RECURSIVE canonicalMIMEHeaderKey(_, _)
canonicalMIMEHeaderKey(a, upper) ==
    IF a = <<>>
    THEN <<>>
    ELSE LET c == IF upper THEN ToUpper(Head(a)) ELSE ToLower(Head(a))
         IN  <<c>> \o canonicalMIMEHeaderKey(Tail(a), c = "-")

\* A key holding a byte that is no token character is returned unchanged.
ComputeCanonicalKey(s) ==
    IF \E i \in 1..Len(s) : ~validHeaderFieldByte(s[i])
    THEN s
    ELSE canonicalMIMEHeaderKey(s, TRUE)

\* The names that occur as inputs, and the keys they are stored under.
InputNames ==
    DOMAIN FullHeaders \cup UNION { DOMAIN h.m : h \in RequestHeaders }
KnownNames == InputNames \cup { ComputeCanonicalKey(n) : n \in InputNames }

\* The canonical keys of the names of S, as a table.
RECURSIVE Tabulate(_)
Tabulate(S) ==
    IF S = {}
    THEN <<>>
    ELSE LET n == CHOOSE x \in S : TRUE
         IN  (n :> ComputeCanonicalKey(n)) @@ Tabulate(S \ {n})

\* The canonical keys of the known names, computed once.
CanonicalKeys == Tabulate(KnownNames)

CanonicalMIMEHeaderKey(s) ==
    IF s \in DOMAIN CanonicalKeys
    THEN CanonicalKeys[s]
    ELSE ComputeCanonicalKey(s)

\* ------------------------------------------------------------------------
\* http.Header operations
\* ------------------------------------------------------------------------

\* Slip: the entry is indexed (h[key][0] = value), which also panics when the
\* map holds no such key.
SetPanicsIndexed(h, key) ==
    h.isNil \/ CanonicalMIMEHeaderKey(key) \notin DOMAIN h.m

\* Whether Header.Set(key, ...) on h panics: a write to an entry of a nil
\* map does.
SetPanics(h, key) == h.isNil

\* Slip: the key is stored as given (h[key] = []string{value}).
HeaderSetRaw(h, key, value) ==
    [isNil |-> FALSE,
     m |-> [x \in DOMAIN h.m \cup {key} |->
                IF x = key THEN <<value>> ELSE h.m[x]]]

\* Slip: the header map is replaced (req.Header = http.Header{key: {value}}).
HeaderSetFresh(h, key, value) ==
    [isNil |-> FALSE, m |-> (CanonicalMIMEHeaderKey(key) :> <<value>>)]

\* Slip: Header.Add is called, which appends to the values already there.
HeaderSetAppend(h, key, value) ==
    LET ck == CanonicalMIMEHeaderKey(key)
    IN  [isNil |-> FALSE,
         m |-> [x \in DOMAIN h.m \cup {ck} |->
                    IF x = ck
                    THEN (IF ck \in DOMAIN h.m THEN h.m[ck] ELSE <<>>) \o <<value>>
                    ELSE h.m[x]]]

\* Slip: only the first of the stored values is replaced (h[key][0] = value
\* when the key is there).
HeaderSetFirst(h, key, value) ==
    LET ck == CanonicalMIMEHeaderKey(key)
    IN  [isNil |-> FALSE,
         m |-> [x \in DOMAIN h.m \cup {ck} |->
                    IF x = ck
                    THEN (IF ck \in DOMAIN h.m /\ Len(h.m[ck]) > 0
                          THEN <<value>> \o Tail(h.m[ck])
                          ELSE <<value>>)
                    ELSE h.m[x]]]

\* h[CanonicalMIMEHeaderKey(key)] = []string{value}
HeaderSet(h, key, value) ==
    LET ck == CanonicalMIMEHeaderKey(key)
    IN  [isNil |-> FALSE,
         m |-> [x \in DOMAIN h.m \cup {ck} |->
                    IF x = ck THEN <<value>> ELSE h.m[x]]]

\* Header.Get: the first value stored under the canonical key, "" if none.
HeaderGet(h, key) ==
    LET ck == CanonicalMIMEHeaderKey(key)
    IN  IF ck \in DOMAIN h.m /\ Len(h.m[ck]) > 0 THEN h.m[ck][1] ELSE ""

\* ------------------------------------------------------------------------
\* State
\* ------------------------------------------------------------------------

VARIABLES
    headers,   \* t.headers
    rt,        \* t.RoundTripper, the wrapped sender
    hdr,       \* hdr[g]: req.Header of the request goroutine g sends
    pc,        \* pc[g]: where g is in RoundTrip
    todo,      \* todo[g]: keys of t.headers the range loop has yet to visit
    ncalls,    \* ncalls[g]: RoundTrip calls g has started
    before,    \* before[g]: req.Header as it was when the current call began
    first,     \* first[g]: req.Header as the first call of g left it
    nsent,     \* nsent[g]: invocations of the wrapped sender in this call
    sent,      \* sent[g]: the request the wrapped sender was handed
    under,     \* under[g]: what the wrapped sender returned
    ret,       \* ret[g]: what RoundTrip returned
    mpc,       \* the step main is to run next
    steps,     \* the steps main has run, in order
    errs,      \* the positions in steps of the steps that returned an error
    toolInfos, \* main's toolInfos slice, by tool name
    toolLog,   \* the tool handlers run during agent.Invoke, with what they gave
    resp,      \* the number of messages agent.Invoke returned
    printed    \* the number of messages printed

mainVars == <<mpc, steps, errs, toolInfos, toolLog, resp, printed>>

vars == <<headers, rt, hdr, pc, todo, ncalls, before, first, nsent, sent,
          under, ret, mainVars>>

\* main before its first step.
MainAtStart ==
    /\ mpc = "godotenv.Load"
    /\ steps = <<>>
    /\ errs = {}
    /\ toolInfos = <<>>
    /\ toolLog = <<>>
    /\ resp = 0
    /\ printed = 0

NoSent == [req |-> "none", header |-> NilHeader]

Init ==
    /\ headers \in HeaderSets
    /\ rt = "http.DefaultTransport"
    /\ hdr \in [Goroutines -> RequestHeaders]
    /\ pc = [g \in Goroutines |-> "idle"]
    /\ todo = [g \in Goroutines |-> {}]
    /\ ncalls = [g \in Goroutines |-> 0]
    /\ before = [g \in Goroutines |-> NilHeader]
    /\ first = [g \in Goroutines |-> NilHeader]
    /\ nsent = [g \in Goroutines |-> 0]
    /\ sent = [g \in Goroutines |-> NoSent]
    /\ under = [g \in Goroutines |-> NoResult]
    /\ ret = [g \in Goroutines |-> NoResult]
    /\ MainAtStart

\* An unrecovered panic in any goroutine ends the process.
Crashed == \E g \in Goroutines : pc[g] = "panic"

\* ------------------------------------------------------------------------
\* customTransport.RoundTrip
\* ------------------------------------------------------------------------

\* The call is entered and the range over t.headers starts.
Begin(g) ==
    /\ ~Crashed
    /\ pc[g] \in {"idle", "done"}
    /\ ncalls[g] < MaxCalls
    /\ pc' = [pc EXCEPT ![g] = "range"]
    /\ todo' = [todo EXCEPT ![g] = DOMAIN headers]
    /\ ncalls' = [ncalls EXCEPT ![g] = @ + 1]
    /\ before' = [before EXCEPT ![g] = hdr[g]]
    /\ nsent' = [nsent EXCEPT ![g] = 0]
    /\ sent' = [sent EXCEPT ![g] = NoSent]
    /\ under' = [under EXCEPT ![g] = NoResult]
    /\ ret' = [ret EXCEPT ![g] = NoResult]
    /\ UNCHANGED <<headers, rt, hdr, first>>
    /\ UNCHANGED mainVars

\* Slip: the requests share one header map, so the write shows in each.
SetOnShared(h, g, key, value) ==
    [x \in DOMAIN h |->
        IF h[x].isNil THEN h[x] ELSE HeaderSet(h[x], key, value)]

\* The effect of req.Header.Set(key, value) in goroutine g on the requests:
\* only g's request is written.
SetOn(h, g, key, value) == [h EXCEPT ![g] = HeaderSet(h[g], key, value)]

\* Slip: a return inside the loop body ends the range after one header.
SetHeaderOnce(g) ==
    /\ ~Crashed
    /\ pc[g] = "range"
    /\ \E key \in todo[g] :
        /\ todo' = [todo EXCEPT ![g] = {}]
        /\ IF SetPanics(hdr[g], key)
           THEN /\ pc' = [pc EXCEPT ![g] = "panic"]
                /\ hdr' = hdr
           ELSE /\ pc' = pc
                /\ hdr' = SetOn(hdr, g, key, headers[key])
    /\ UNCHANGED <<headers, rt, ncalls, before, first, nsent, sent, under, ret>>
    /\ UNCHANGED mainVars

\* Slip: each header is deleted from t.headers once it has been set.
SetHeaderDraining(g) ==
    /\ ~Crashed
    /\ pc[g] = "range"
    /\ \E key \in todo[g] :
        /\ key \in DOMAIN headers
        /\ todo' = [todo EXCEPT ![g] = @ \ {key}]
        /\ headers' = [x \in DOMAIN headers \ {key} |-> headers[x]]
        /\ IF SetPanics(hdr[g], key)
           THEN /\ pc' = [pc EXCEPT ![g] = "panic"]
                /\ hdr' = hdr
           ELSE /\ pc' = pc
                /\ hdr' = SetOn(hdr, g, key, headers[key])
    /\ UNCHANGED <<rt, ncalls, before, first, nsent, sent, under, ret>>
    /\ UNCHANGED mainVars

\* One iteration of the range loop: the map yields its keys in any order.
SetHeader(g) ==
    /\ ~Crashed
    /\ pc[g] = "range"
    /\ \E key \in todo[g] :
        /\ todo' = [todo EXCEPT ![g] = @ \ {key}]
        /\ IF SetPanics(hdr[g], key)
           THEN /\ pc' = [pc EXCEPT ![g] = "panic"]
                /\ hdr' = hdr
           ELSE /\ pc' = pc
                /\ hdr' = SetOn(hdr, g, key, headers[key])
    /\ UNCHANGED <<headers, rt, ncalls, before, first, nsent, sent, under, ret>>
    /\ UNCHANGED mainVars

\* Slip: the wrapped sender is invoked before the range has finished.
DelegateEarly(g) ==
    /\ ~Crashed
    /\ pc[g] = "range"
    /\ pc' = [pc EXCEPT ![g] = "call"]
    /\ nsent' = [nsent EXCEPT ![g] = @ + 1]
    /\ sent' = [sent EXCEPT ![g] = [req |-> g, header |-> hdr[g]]]
    /\ UNCHANGED <<headers, rt, hdr, todo, ncalls, before, first, under, ret>>
    /\ UNCHANGED mainVars

\* Slip: the wrapped sender is handed a copy of the request taken before
\* the headers were set.
DelegateOriginal(g) ==
    /\ ~Crashed
    /\ pc[g] = "range"
    /\ todo[g] = {}
    /\ pc' = [pc EXCEPT ![g] = "call"]
    /\ nsent' = [nsent EXCEPT ![g] = @ + 1]
    /\ sent' = [sent EXCEPT ![g] = [req |-> g, header |-> before[g]]]
    /\ UNCHANGED <<headers, rt, hdr, todo, ncalls, before, first, under, ret>>
    /\ UNCHANGED mainVars

\* The loop is over: t.RoundTripper.RoundTrip(req) is invoked with req.
Delegate(g) ==
    /\ ~Crashed
    /\ pc[g] = "range"
    /\ todo[g] = {}
    /\ pc' = [pc EXCEPT ![g] = "call"]
    /\ nsent' = [nsent EXCEPT ![g] = @ + 1]
    /\ sent' = [sent EXCEPT ![g] = [req |-> g, header |-> hdr[g]]]
    /\ UNCHANGED <<headers, rt, hdr, todo, ncalls, before, first, under, ret>>
    /\ UNCHANGED mainVars

\* What the wrapped sender may answer to a request with header map h:
\* http.Transport refuses a request whose Header is nil.
Outcomes(h) == IF h.isNil THEN {NilHeaderResult} ELSE SenderResults

\* Slip: the sender's error is wrapped before it is returned.
ResultWrapped(r) ==
    IF r.err = "nil" THEN r ELSE [resp |-> r.resp, err |-> "TransportError"]

\* Slip: the response is dropped (_, err := ...; return nil, err).
ResultNoResponse(r) == [resp |-> "nil", err |-> r.err]

\* What RoundTrip returns, given what the wrapped sender returned: the same
\* pair.
Result(r) == r

\* The wrapped sender returns and RoundTrip returns its result.
Return(g) ==
    /\ ~Crashed
    /\ pc[g] = "call"
    /\ \E r \in Outcomes(sent[g].header) :
        /\ under' = [under EXCEPT ![g] = r]
        /\ ret' = [ret EXCEPT ![g] = Result(r)]
    /\ pc' = [pc EXCEPT ![g] = "done"]
    /\ first' = [first EXCEPT ![g] = IF ncalls[g] = 1 THEN hdr[g] ELSE @]
    /\ UNCHANGED <<headers, rt, hdr, todo, ncalls, before, nsent, sent>>
    /\ UNCHANGED mainVars

Next ==
    \E g \in Goroutines :
        \/ Begin(g)
        \/ SetHeader(g)
        \/ Delegate(g)
        \/ Return(g)

Spec == Init /\ [][Next]_vars

\* ------------------------------------------------------------------------
\* The tool handlers
\* ------------------------------------------------------------------------

\* Bound: the tool calls the tools node makes during one agent.Invoke.
MaxToolCalls == 2

\* Bound: the messages agent.Invoke returns.
MaxMessages == 2

\* TodoAddParams values (nil for an absent pointer field).
AddParams ==
    { [Content |-> "", StartAt |-> "nil", Deadline |-> "nil"],
      [Content |-> "learn Eino", StartAt |-> "1717401600", Deadline |-> "nil"] }

\* TodoUpdateParams values.
UpdateParams ==
    { [ID |-> "1", Content |-> "nil", Done |-> "true"],
      [ID |-> "", Content |-> "learn Eino", Done |-> "nil"] }

\* argumentsInJSON values handed to ListTodoTool.InvokableRun.
ListArguments == {"{}", "{\"finished\": true}", "not json"}

AddTodoSuccess == "{\"msg\": \"add todo success\"}"
UpdateTodoSuccess == "{\"msg\": \"update todo success\"}"
\* (the text of the item's content is written with JSON's \u escapes)
TodoList ==
    "{\"todos\": [{\"id\": \"1\", \"content\": \"\\u57282024\\u5e7412\\u670810\\u65e5\\u4e4b\\u524d\\u5b8c\\u6210Eino\\u9879\\u76ee\\u6f14\\u793a\\u6587\\u7a3f\\u7684\\u51c6\\u5907\\u5de5\\u4f5c\", \"started_at\": 1717401600, \"deadline\": 1717488000, \"done\": false}]}"

AddTodoFunc(params) == [out |-> AddTodoSuccess, err |-> "nil"]

UpdateTodoFunc(params) == [out |-> UpdateTodoSuccess, err |-> "nil"]

\* Slip: the 'finished' filter is applied (the one item is not done).
InvokableRunFiltered(argumentsInJSON) ==
    IF argumentsInJSON = "{\"finished\": true}"
    THEN [out |-> "{\"todos\": []}", err |-> "nil"]
    ELSE [out |-> TodoList, err |-> "nil"]

\* ListTodoTool.InvokableRun
InvokableRun(argumentsInJSON) == [out |-> TodoList, err |-> "nil"]

\* The handler calls the tools node can make: tool, arguments, result.
HandlerCalls ==
    { [tool |-> "add_todo", args |-> a, res |-> AddTodoFunc(a)] : a \in AddParams }
    \cup { [tool |-> "update_todo", args |-> a, res |-> UpdateTodoFunc(a)] :
             a \in UpdateParams }
    \cup { [tool |-> "list_todo", args |-> a, res |-> InvokableRun(a)] :
             a \in ListArguments }

\* ------------------------------------------------------------------------
\* main
\* ------------------------------------------------------------------------

\* todoTools, by tool name.
TodoTools == <<"add_todo", "update_todo", "list_todo", "duckduckgo">>

\* What os.Getenv("CUSTOM_API_KEY") may give.
ApiKeys == {"", "secret123"}

\* Whether tool.Info can return an error: ListTodoTool.Info always returns
\* nil; the other tools are the framework's.
InfoOutcomes(tool) == IF tool = "list_todo" THEN {TRUE} ELSE BOOLEAN

transportVars ==
    <<headers, rt, hdr, pc, todo, ncalls, before, first, nsent, sent, under, ret>>

\* Slip: the return after the error log is missing.
RunNoReturn(step, next, ok) ==
    /\ mpc = step
    /\ steps' = Append(steps, step)
    /\ errs' = IF ok THEN errs ELSE errs \cup {Len(steps) + 1}
    /\ mpc' = next

\* A step of main whose error ends main: if err != nil { log; return }.
Run(step, next, ok) ==
    /\ mpc = step
    /\ steps' = Append(steps, step)
    /\ errs' = IF ok THEN errs ELSE errs \cup {Len(steps) + 1}
    /\ mpc' = IF ok THEN next ELSE "exit"

\* godotenv.Load: an error is logged and main goes on.
LoadEnv ==
    /\ mpc = "godotenv.Load"
    /\ \E ok \in BOOLEAN :
        errs' = IF ok THEN errs ELSE errs \cup {Len(steps) + 1}
    /\ steps' = Append(steps, "godotenv.Load")
    /\ mpc' = "InferTool"
    /\ UNCHANGED <<toolInfos, toolLog, resp, printed, transportVars>>

InferUpdateTool ==
    /\ \E ok \in BOOLEAN : Run("InferTool", "duckduckgo.NewTool", ok)
    /\ UNCHANGED <<toolInfos, toolLog, resp, printed, transportVars>>

NewSearchTool ==
    /\ \E ok \in BOOLEAN : Run("duckduckgo.NewTool", "NewChatModel", ok)
    /\ UNCHANGED <<toolInfos, toolLog, resp, printed, transportVars>>

\* The headers map and the client with its customTransport are built from
\* the environment, then openai.NewChatModel is called.
NewChatModel ==
    /\ \E ok \in BOOLEAN : Run("NewChatModel", "Info", ok)
    /\ \E apiKey \in ApiKeys :
        headers' = (ApiKeyName :> apiKey) @@ (ContentTypeName :> "application/json")
    /\ rt' = "http.DefaultTransport"
    /\ UNCHANGED <<toolInfos, toolLog, resp, printed, hdr, pc, todo, ncalls,
                   before, first, nsent, sent, under, ret>>

\* One iteration of the loop over todoTools.
ToolInfo ==
    /\ Len(toolInfos) < Len(TodoTools)
    /\ LET tool == TodoTools[Len(toolInfos) + 1]
           next == IF Len(toolInfos) + 1 = Len(TodoTools)
                   THEN "BindTools" ELSE "Info"
       IN  \E ok \in InfoOutcomes(tool) :
               /\ Run("Info", next, ok)
               /\ toolInfos' = IF ok THEN Append(toolInfos, tool) ELSE toolInfos
    /\ UNCHANGED <<toolLog, resp, printed, transportVars>>

BindTools ==
    /\ \E ok \in BOOLEAN : Run("BindTools", "NewToolNode", ok)
    /\ UNCHANGED <<toolInfos, toolLog, resp, printed, transportVars>>

NewToolNode ==
    /\ \E ok \in BOOLEAN : Run("NewToolNode", "Compile", ok)
    /\ UNCHANGED <<toolInfos, toolLog, resp, printed, transportVars>>

\* The chain is built and compiled.
Compile ==
    /\ \E ok \in BOOLEAN : Run("Compile", "Invoke", ok)
    /\ UNCHANGED <<toolInfos, toolLog, resp, printed, transportVars>>

\* agent.Invoke is called.
Invoke ==
    /\ mpc = "Invoke"
    /\ steps' = Append(steps, "Invoke")
    /\ mpc' = "invoking"
    /\ UNCHANGED <<errs, toolInfos, toolLog, resp, printed, transportVars>>

\* During agent.Invoke the tools node runs a tool handler.
ToolCall ==
    /\ mpc = "invoking"
    /\ Len(toolLog) < MaxToolCalls
    /\ \E c \in HandlerCalls : toolLog' = Append(toolLog, c)
    /\ UNCHANGED <<mpc, steps, errs, toolInfos, resp, printed, transportVars>>

\* agent.Invoke returns: an error ends main, messages are to be printed.
InvokeReturn ==
    /\ mpc = "invoking"
    /\ \/ /\ errs' = errs \cup {Len(steps)}
          /\ mpc' = "exit"
          /\ resp' = 0
       \/ /\ errs' = errs
          /\ \E n \in 0..MaxMessages :
              /\ resp' = n
              /\ mpc' = IF n = 0 THEN "exit" ELSE "print"
    /\ UNCHANGED <<steps, toolInfos, toolLog, printed, transportVars>>

\* One iteration of the loop over resp.
PrintMessage ==
    /\ mpc = "print"
    /\ printed < resp
    /\ printed' = printed + 1
    /\ mpc' = IF printed + 1 = resp THEN "exit" ELSE "print"
    /\ UNCHANGED <<steps, errs, toolInfos, toolLog, resp, transportVars>>

\* The process before main has built the transport.
MainInit ==
    /\ MainAtStart
    /\ headers = <<>>
    /\ rt = "nil"
    /\ hdr = [g \in Goroutines |-> EmptyHeader]
    /\ pc = [g \in Goroutines |-> "idle"]
    /\ todo = [g \in Goroutines |-> {}]
    /\ ncalls = [g \in Goroutines |-> 0]
    /\ before = [g \in Goroutines |-> NilHeader]
    /\ first = [g \in Goroutines |-> NilHeader]
    /\ nsent = [g \in Goroutines |-> 0]
    /\ sent = [g \in Goroutines |-> NoSent]
    /\ under = [g \in Goroutines |-> NoResult]
    /\ ret = [g \in Goroutines |-> NoResult]

MainNext ==
    \/ LoadEnv
    \/ InferUpdateTool
    \/ NewSearchTool
    \/ NewChatModel
    \/ ToolInfo
    \/ BindTools
    \/ NewToolNode
    \/ Compile
    \/ Invoke
    \/ ToolCall
    \/ InvokeReturn
    \/ PrintMessage

SpecMain == MainInit /\ [][MainNext]_vars

\* ------------------------------------------------------------------------
\* Vocabulary of the properties
\* ------------------------------------------------------------------------

\* h holds the pair (name, value): the name's canonical key is stored and
\* Header.Get(name) gives the value.
Contains(h, name, value) ==
    /\ CanonicalMIMEHeaderKey(name) \in DOMAIN h.m
    /\ HeaderGet(h, name) = value

\* The stored key x names a header of H (header names compare without
\* regard to letter case).
NamedIn(H, x) ==
    \E n \in DOMAIN H : CanonicalMIMEHeaderKey(n) = CanonicalMIMEHeaderKey(x)

\* No other name of H that Header.Set stores under the same key carries a
\* different value.
Unrivalled(H, n) ==
    \A n2 \in DOMAIN H :
        CanonicalMIMEHeaderKey(n2) = CanonicalMIMEHeaderKey(n) => H[n2] = H[n]

NoRivals(H) == \A n \in DOMAIN H : Unrivalled(H, n)

\* The scenario of the specification's testable properties.
ScenarioHeaders ==
    (ApiKeyName :> "secret123") @@ (ContentTypeName :> "application/json")
ScenarioRequest == [isNil |-> FALSE, m |-> (ContentTypeName :> <<"text/plain">>)]

\* ------------------------------------------------------------------------
\* C1
\* ------------------------------------------------------------------------

\* C1 as stated: once RoundTrip has returned, the request holds every
\* (name, value) pair of H, whatever H is.
C1_OverwriteAnyH ==
    \A g \in Goroutines :
        pc[g] = "done" =>
            \A n \in DOMAIN headers : Contains(hdr[g], n, headers[n])

\* C1 amended: once RoundTrip has returned, the request holds every
\* (name, value) pair of H whose name no other name of H rivals, i.e. no other
\* name of H differs from it in letter case only while carrying another
\* value; whatever the request held for those names before.
C1_Overwrite ==
    \A g \in Goroutines :
        pc[g] = "done" =>
            \A n \in DOMAIN headers :
                Unrivalled(headers, n) => Contains(hdr[g], n, headers[n])

\* The scenario: H = {api-key, Content-Type}, the request arrived with
\* Content-Type: text/plain and leaves with both headers of H.
C1_Witness ==
    \E g \in Goroutines :
        /\ pc[g] = "done"
        /\ headers = ScenarioHeaders
        /\ before[g] = ScenarioRequest
        /\ HeaderGet(hdr[g], ContentTypeName) = "application/json"
        /\ HeaderGet(hdr[g], ApiKeyName) = "secret123"

\* ------------------------------------------------------------------------
\* C2
\* ------------------------------------------------------------------------

\* C2: during and after a call, every stored header whose name is not in H
\* has the values it had when the call began; no stored key is removed, and
\* every key added is the key of a name of H.
C2_Frame ==
    \A g \in Goroutines :
        pc[g] # "idle" =>
            /\ DOMAIN before[g].m \subseteq DOMAIN hdr[g].m
            /\ \A x \in DOMAIN hdr[g].m :
                ~NamedIn(headers, x) =>
                    x \in DOMAIN before[g].m /\ hdr[g].m[x] = before[g].m[x]
            /\ \A x \in DOMAIN hdr[g].m \ DOMAIN before[g].m :
                \E n \in DOMAIN headers : x = CanonicalMIMEHeaderKey(n)

\* A call has returned after writing headers to a request that carried a
\* header outside H, which is still there.
C2_Witness ==
    \E g \in Goroutines :
        /\ pc[g] = "done"
        /\ hdr[g] # before[g]
        /\ XTraceName \in DOMAIN before[g].m
        /\ hdr[g].m[XTraceName] = <<"abc">>

\* ------------------------------------------------------------------------
\* C3
\* ------------------------------------------------------------------------

\* C3: when the wrapped sender returned an error, RoundTrip returned that
\* error and the response value that came with it.
C3_ErrorTransparency ==
    \A g \in Goroutines :
        (pc[g] = "done" /\ under[g].err # "nil") => ret[g] = under[g]

\* The wrapped sender failed with a response beside the error.
C3_Witness ==
    \E g \in Goroutines :
        /\ pc[g] = "done"
        /\ under[g].err = "redirect refused"
        /\ ret[g].err = "redirect refused"
        /\ ret[g].resp = "302 Found"

\* ------------------------------------------------------------------------
\* C4
\* ------------------------------------------------------------------------

\* C4: when the wrapped sender returned a response, RoundTrip returned that
\* response.
C4_ResponseTransparency ==
    \A g \in Goroutines :
        (pc[g] = "done" /\ under[g].resp # "nil") =>
            ret[g].resp = under[g].resp

\* The wrapped sender answered 200 OK and the caller got it.
C4_Witness ==
    \E g \in Goroutines :
        /\ pc[g] = "done"
        /\ under[g] = [resp |-> "200 OK", err |-> "nil"]
        /\ ret[g].resp = "200 OK"

\* ------------------------------------------------------------------------
\* C5
\* ------------------------------------------------------------------------

\* C5: the wrapped sender is not invoked while the range runs; when it is
\* invoked the range has visited every name of H, the request it is handed
\* is the caller's own with its header map as the loop left it, every name
\* of H is stored there (with H's value, unless another name of H rivals
\* it), and it is invoked once per call. A call that panics (its request
\* has a nil header map) never reaches the sender.
C5_InjectBeforeDelegate ==
    \A g \in Goroutines :
        /\ pc[g] \in {"idle", "range", "panic"} => nsent[g] = 0
        /\ pc[g] = "panic" => before[g].isNil
        /\ pc[g] \in {"call", "done"} =>
            /\ nsent[g] = 1
            /\ todo[g] = {}
            /\ sent[g].req = g
            /\ sent[g].header = hdr[g]
            /\ \A n \in DOMAIN headers :
                /\ CanonicalMIMEHeaderKey(n) \in DOMAIN sent[g].header.m
                /\ Unrivalled(headers, n) =>
                       Contains(sent[g].header, n, headers[n])

\* The sender is being invoked with a request that lacked a header of H
\* when the call began.
C5_Witness ==
    \E g \in Goroutines :
        /\ pc[g] = "call"
        /\ nsent[g] = 1
        /\ ApiKeyName \in DOMAIN headers
        /\ ~Contains(before[g], ApiKeyName, "secret123")
        /\ Contains(sent[g].header, ApiKeyName, "secret123")

\* ------------------------------------------------------------------------
\* C6
\* ------------------------------------------------------------------------

\* C6 as stated: a request sent through the transport again, with the same
\* H, ends with the header map the first call left, whatever H is.
C6_IdempotentAnyH ==
    \A g \in Goroutines :
        (pc[g] = "done" /\ ncalls[g] >= 2) => hdr[g] = first[g]

\* C6 amended: when no two names of H differ in letter case only while
\* carrying different values, a request sent through the transport again
\* ends with the header map the first call left.
C6_Idempotent ==
    NoRivals(headers) =>
        \A g \in Goroutines :
            (pc[g] = "done" /\ ncalls[g] >= 2) => hdr[g] = first[g]

\* A second call with the scenario's H has returned on a request whose
\* Content-Type the first call had overwritten and whose X-Trace it kept.
C6_Witness ==
    \E g \in Goroutines :
        /\ pc[g] = "done"
        /\ ncalls[g] = 2
        /\ headers = ScenarioHeaders
        /\ XTraceName \in DOMAIN first[g].m
        /\ first[g].m[ContentTypeName] = <<"application/json">>
        /\ hdr[g] = first[g]

\* ------------------------------------------------------------------------
\* C7
\* ------------------------------------------------------------------------

\* The header map the loop leaves when it visits the names of S in one fixed
\* order.
RECURSIVE InFixedOrder(_, _, _)
InFixedOrder(h, H, S) ==
    IF S = {}
    THEN h
    ELSE LET n == CHOOSE x \in S : TRUE
         IN  InFixedOrder(HeaderSet(h, n, H[n]), H, S \ {n})

\* C7 as stated: whatever order the range visits the names of H in, the
\* request ends with the header map one fixed order gives, names that
\* differ in letter case only included.
C7_AnyOrderAnyH ==
    \A g \in Goroutines :
        pc[g] = "done" =>
            hdr[g] = InFixedOrder(before[g], headers, DOMAIN headers)

\* C7 amended: whatever order the range visits the names of H in, the
\* request ends with the header map one fixed order gives, provided no two
\* names of H differ in letter case only while carrying different values
\* (such names are written to the same key, and the last one visited wins).
C7_AnyOrder ==
    NoRivals(headers) =>
        \A g \in Goroutines :
            pc[g] = "done" =>
                hdr[g] = InFixedOrder(before[g], headers, DOMAIN headers)

\* A call with the scenario's two headers to set, which the range may visit
\* in either order, has returned with both stored.
C7_Witness ==
    \E g \in Goroutines :
        /\ pc[g] = "done"
        /\ headers = ScenarioHeaders
        /\ before[g] = EmptyHeader
        /\ DOMAIN hdr[g].m =
               {CanonicalMIMEHeaderKey(ApiKeyName), ContentTypeName}

\* ------------------------------------------------------------------------
\* C8
\* ------------------------------------------------------------------------

\* The wrapped sender accepts a request with header map h.
Accepts(h) == NilHeaderResult \notin Outcomes(h)

\* C8: a call whose request the wrapped sender accepts does not panic in
\* the header loop, and a call returns an error only if the wrapped sender
\* returned one.
C8_NoOwnFailure ==
    \A g \in Goroutines :
        /\ pc[g] = "panic" => ~Accepts(before[g])
        /\ (pc[g] = "done" /\ ret[g].err # "nil") => under[g].err # "nil"

\* A call on an accepted request that lacked every header of H has written
\* them all and returned without error.
C8_Witness ==
    \E g \in Goroutines :
        /\ pc[g] = "done"
        /\ Accepts(before[g])
        /\ before[g] = EmptyHeader
        /\ Cardinality(DOMAIN headers) = 3
        /\ ret[g].err = "nil"

\* ------------------------------------------------------------------------
\* C9
\* ------------------------------------------------------------------------

\* The header maps a call alone can leave on a request that began as h,
\* over every order of visiting the names of S.
RECURSIVE SoloResults(_, _, _)
SoloResults(h, H, S) ==
    IF S = {}
    THEN {h}
    ELSE UNION { SoloResults(HeaderSet(h, n, H[n]), H, S \ {n}) : n \in S }

\* C9: under every interleaving of the calls, a request's header map is
\* written only by a loop step of the call that sends it, no step writes
\* the headers map, and a call that returns leaves its request as a call
\* running alone could have: every name of H stored, the headers outside H
\* those the request itself began with.
C9_Step ==
    /\ headers' = headers
    /\ \A g \in Goroutines :
        /\ hdr'[g] # hdr[g] => (pc[g] = "range" /\ todo'[g] # todo[g])
        /\ pc'[g] = "done" =>
            /\ hdr'[g] \in SoloResults(before'[g], headers', DOMAIN headers')
            /\ \A n \in DOMAIN headers' :
                CanonicalMIMEHeaderKey(n) \in DOMAIN hdr'[g].m
            /\ \A x \in DOMAIN hdr'[g].m :
                ~NamedIn(headers', x) =>
                    x \in DOMAIN before'[g].m
                        /\ hdr'[g].m[x] = before'[g].m[x]

C9_Isolation == [][C9_Step]_vars

\* Two calls are in the middle of their loops at once, on requests that
\* began differently.
C9_Witness ==
    /\ \A g \in Goroutines :
        /\ pc[g] = "range"
        /\ todo[g] # {}
        /\ todo[g] # DOMAIN headers
    /\ before["g1"] # before["g2"]
    /\ todo["g1"] # todo["g2"]

\* ------------------------------------------------------------------------
\* C10
\* ------------------------------------------------------------------------

\* C10: no step of any call, successful, failing or panicking, changes the
\* headers map or the wrapped sender the transport holds, and every call,
\* the first as the n-th, starts its range over all the names of that map.
C10_Step ==
    /\ headers' = headers
    /\ rt' = rt
    /\ \A g \in Goroutines :
        ncalls'[g] # ncalls[g] => todo'[g] = DOMAIN headers

C10_Immutable == [][C10_Step]_vars

\* A goroutine has completed two calls, the last one failing, with a
\* non-empty headers map.
C10_Witness ==
    \E g \in Goroutines :
        /\ ncalls[g] = 2
        /\ pc[g] = "done"
        /\ ret[g].err = "dial timeout"
        /\ DOMAIN headers # {}
        /\ hdr[g] # EmptyHeader

\* ------------------------------------------------------------------------
\* C11
\* ------------------------------------------------------------------------

\* Setting the headers of H on a request with header map h, outside the
\* transport, panics.
DirectSetPanics(h, H) == \E n \in DOMAIN H : SetPanics(h, n)

\* The (response, error) pairs that setting the headers of H on a request
\* with header map h and then sending it through the wrapped sender can give.
DirectResults(h, H) ==
    UNION { Outcomes(h2) : h2 \in SoloResults(h, H, DOMAIN H) }

\* C11: a call through the transport ends as setting the headers of H on the
\* request and sending it through the wrapped sender directly would: the
\* sender answers the request with the headers set, what it answers is what
\* the caller gets, and the call panics only where setting the headers
\* would.
C11_Decorator ==
    \A g \in Goroutines :
        /\ pc[g] = "panic" => DirectSetPanics(before[g], headers)
        /\ pc[g] = "done" =>
            /\ ~DirectSetPanics(before[g], headers)
            /\ sent[g].header \in SoloResults(before[g], headers, DOMAIN headers)
            /\ under[g] \in Outcomes(sent[g].header)
            /\ ret[g] = under[g]
            /\ ret[g] \in DirectResults(before[g], headers)

\* The sender answered 200 OK to a request that reached it with an api-key
\* header the caller had not set.
C11_Witness ==
    \E g \in Goroutines :
        /\ pc[g] = "done"
        /\ ApiKeyName \in DOMAIN headers
        /\ before[g] = ScenarioRequest
        /\ sent[g].header # before[g]
        /\ ret[g] = [resp |-> "200 OK", err |-> "nil"]

\* ------------------------------------------------------------------------
\* C12
\* ------------------------------------------------------------------------

\* C12 as stated: after RoundTrip, under whatever spelling of a name of H
\* the request stores values, it stores them under the canonical key only,
\* and there exactly one value, the one H gives that name.
C12_SingleValueAnyCasing ==
    \A g \in Goroutines :
        pc[g] = "done" =>
            \A n \in DOMAIN headers :
                /\ CanonicalMIMEHeaderKey(n) \in DOMAIN hdr[g].m
                /\ \A x \in DOMAIN hdr[g].m :
                    CanonicalMIMEHeaderKey(x) = CanonicalMIMEHeaderKey(n) =>
                        x = CanonicalMIMEHeaderKey(n)
                            /\ hdr[g].m[x] = <<headers[n]>>

\* C12 amended: after RoundTrip, the canonical key of each name of H holds
\* exactly one value, the one H gives that name (for a name another name of
\* H rivals, the one H gives one of the rivals), whatever number of values
\* it held before; values the request stores under another spelling of the
\* name, which only a direct write to the map produces, stay as they were.
C12_SingleValue ==
    \A g \in Goroutines :
        pc[g] = "done" =>
            \A n \in DOMAIN headers :
                LET ck == CanonicalMIMEHeaderKey(n)
                IN  /\ ck \in DOMAIN hdr[g].m
                    /\ Len(hdr[g].m[ck]) = 1
                    /\ \E n2 \in DOMAIN headers :
                        /\ CanonicalMIMEHeaderKey(n2) = ck
                        /\ hdr[g].m[ck] = <<headers[n2]>>
                    /\ Unrivalled(headers, n) => hdr[g].m[ck] = <<headers[n]>>
                    /\ \A x \in DOMAIN hdr[g].m :
                        (CanonicalMIMEHeaderKey(x) = ck /\ x # ck) =>
                            x \in DOMAIN before[g].m
                                /\ hdr[g].m[x] = before[g].m[x]

\* A request that held two values for Content-Type leaves with the one of
\* H.
C12_Witness ==
    \E g \in Goroutines :
        /\ pc[g] = "done"
        /\ headers = ScenarioHeaders
        /\ ContentTypeName \in DOMAIN before[g].m
        /\ Len(before[g].m[ContentTypeName]) = 2
        /\ hdr[g].m[ContentTypeName] = <<"application/json">>

\* ------------------------------------------------------------------------
\* C13
\* ------------------------------------------------------------------------

\* The steps of main in the order of the source, Info once per tool.
StartupOrder ==
    <<"godotenv.Load", "InferTool", "duckduckgo.NewTool", "NewChatModel">>
        \o [i \in 1..Len(TodoTools) |-> "Info"]
        \o <<"BindTools", "NewToolNode", "Compile", "Invoke">>

\* C13: the steps main has run are a prefix of the fixed order; main goes on
\* after godotenv.Load whatever it returned; a step after it that returned
\* an error is the last step run and main has ended; main ends before
\* Invoke only on such an error; Invoke is reached only with every tool's
\* Info collected and no error in any step after godotenv.Load; messages
\* are printed only if Invoke returned no error.
C13_StartupSequence ==
    /\ Len(steps) <= Len(StartupOrder)
    /\ steps = SubSeq(StartupOrder, 1, Len(steps))
    /\ steps = <<"godotenv.Load">> => mpc = "InferTool"
    /\ \A i \in errs : i = 1 \/ (i = Len(steps) /\ mpc = "exit")
    /\ (mpc = "exit" /\ Len(steps) < Len(StartupOrder)) => Len(steps) \in errs
    /\ Len(steps) = Len(StartupOrder) =>
        /\ toolInfos = TodoTools
        /\ errs \subseteq {1, Len(steps)}
    /\ printed > 0 =>
        /\ Len(steps) = Len(StartupOrder)
        /\ Len(steps) \notin errs
        /\ printed <= resp

\* Loading .env failed, and main still ran every step and printed the
\* messages Invoke returned.
C13_Witness ==
    /\ 1 \in errs
    /\ mpc = "exit"
    /\ Len(steps) = Len(StartupOrder)
    /\ resp = 2
    /\ printed = 2

\* ------------------------------------------------------------------------
\* C14
\* ------------------------------------------------------------------------

=============================================================================
